---- MODULE Spec2Model ----
(***************************************************************************)
(* Model of the clipboard cascade of fencecat (src/src/clipboard.rs):      *)
(* copy_to_clipboard_multi tries wl-copy, xclip, xsel, the OS-native       *)
(* writers and finally the arboard library, verifying the CLI writes by a  *)
(* read-back.  The environment (variables, PATH, build target) is chosen   *)
(* in Init; the behaviour of every spawned process is chosen when it runs. *)
(***************************************************************************)
EXTENDS Integers, Sequences, FiniteSets, TLC

\* Largest exit code a subprocess reports (0 is success).
MaxExit == 1
\* Largest number of bytes a reader prints on standard output.
MaxOut == 1

VARIABLES
    env,        \* which of WAYLAND_DISPLAY, WAYLAND_SOCKET, DISPLAY are set
    path,       \* the executables which::which finds on PATH
    target_os,  \* cfg(target_os) of the build
    pc,         \* position inside copy_to_clipboard_multi
    trace,      \* the calls copy_to_clipboard_multi has made, in order
    stderr,     \* the lines written by eprintln!
    result,     \* the value returned by copy_to_clipboard_multi
    children    \* every child spawned so far and how its handle was released

vars == <<env, path, target_os, pc, trace, stderr, result, children>>

Tools == {"wl-copy", "wl-paste", "xclip", "xsel", "pbcopy", "clip.exe", "powershell"}
TargetOS == {"linux", "macos", "windows"}
ByteVals == {104}
ExitCodes == 0..MaxExit
Stdouts == UNION {[1..n -> ByteVals] : n \in 0..MaxOut}

\* What one external operation did: how far it got, its exit code, its stdout.
Outcome(kind, code, stdout) == [kind |-> kind, code |-> code, stdout |-> stdout]
NotRun == Outcome("not_run", 0, <<>>)
\* Command::spawn, write_all on the pipe and Child::wait can each fail (the ?s).
WriteOutcomes ==
    {Outcome(k, 0, <<>>) : k \in {"spawn_err", "write_err", "wait_err"}}
        \cup {Outcome("exit", c, <<>>) : c \in ExitCodes}
\* Command::output fails when spawn or wait fails, else yields status and stdout.
ReadOutcomes ==
    {Outcome(k, 0, <<>>) : k \in {"spawn_err", "wait_err"}}
        \cup {Outcome("exit", c, s) : c \in ExitCodes, s \in Stdouts}
\* arboard: Clipboard::new fails, set_text fails, or both succeed.
LibOutcomes == {Outcome(k, 0, <<>>) : k \in {"new_err", "set_err", "ok"}}

Ok == [tag |-> "Ok", msg |-> <<>>]
Err(msg) == [tag |-> "Err", msg |-> msg]
Pending == [tag |-> "Pending", msg |-> <<>>]

is_wayland == env.WAYLAND_DISPLAY \/ env.WAYLAND_SOCKET
is_x11 == env.DISPLAY
cmd_exists(bin) == bin \in path

\* Display text of the io::Error / arboard::Error an operation produced.
ErrorText(o) ==
    CASE o.kind = "spawn_err" -> <<"os error: spawn">>
      [] o.kind = "write_err" -> <<"os error: write">>
      [] o.kind = "wait_err" -> <<"os error: wait">>
      [] o.kind = "new_err" -> <<"arboard: cannot open clipboard">>
      [] o.kind = "set_err" -> <<"arboard: cannot set text">>
      [] OTHER -> <<>>

success(code) == code = 0

run_with_stdin(bin, o) ==
    IF o.kind # "exit" THEN Err(ErrorText(o))
    ELSE IF success(o.code) THEN Ok
    ELSE Err(<<bin, " exited with status ", ToString(o.code)>>)

\* The Child a call leaves behind.  Child::wait closes the stdin pipe and
\* collects the exit status.  When write_all or wait returns early through ?,
\* the Child is dropped instead: dropping closes its stdin pipe but neither
\* kills nor reaps the process.  A failed spawn creates no child.
ChildAfter(argv, o) ==
    IF o.kind \in {"spawn_err", "not_run"} THEN {}
    ELSE {[argv |-> argv, stdin_closed |-> TRUE, reaped |-> o.kind = "exit"]}

WlCopyArgv == <<"wl-copy", "--type", "text/plain;charset=utf-8", "-n">>
WlPasteArgv == <<"wl-paste", "-n">>
XclipCopyArgv == <<"xclip", "-selection", "clipboard">>
XclipPasteArgv == <<"xclip", "-selection", "clipboard", "-o">>
XselCopyArgv == <<"xsel", "--clipboard", "--input">>
XselPasteArgv == <<"xsel", "--clipboard", "--output">>
PbcopyArgv == <<"pbcopy">>
ClipExeArgv == <<"clip.exe">>
PowershellArgv == <<"powershell", "-NoProfile", "-Command", "Set-Clipboard">>

wl_copy(o) == run_with_stdin("wl-copy", o)
xclip_copy(o) == run_with_stdin("xclip", o)
xsel_copy(o) == run_with_stdin("xsel", o)
pbcopy(o) == run_with_stdin("pbcopy", o)
clip_exe(o) == run_with_stdin("clip.exe", o)
powershell_clip(o) == run_with_stdin("powershell", o)

verify_wl_paste_non_empty_absentfalse(o) ==
    IF ~cmd_exists("wl-paste") THEN FALSE
    ELSE IF o.kind = "exit" THEN o.stdout # <<>> ELSE TRUE

verify_wl_paste_non_empty(o) ==
    IF ~cmd_exists("wl-paste") THEN TRUE
    ELSE IF o.kind = "exit" THEN o.stdout # <<>> ELSE TRUE

verify_xclip_non_empty_errfalse(o) ==
    IF o.kind = "exit" THEN o.stdout # <<>> ELSE FALSE

verify_xclip_non_empty(o) ==
    IF o.kind = "exit" THEN o.stdout # <<>> ELSE TRUE

verify_xsel_non_empty_trusting(o) ==
    TRUE

verify_xsel_non_empty(o) ==
    IF o.kind = "exit" THEN o.stdout # <<>> ELSE TRUE

arboard_fallback(o) ==
    IF o.kind = "ok" THEN Ok ELSE Err(ErrorText(o))

\* The guards of the three CLI blocks.
WlGate == is_wayland /\ cmd_exists("wl-copy")

X11Gate_pathonly(bin) == cmd_exists(bin)

X11Gate(bin) == (is_x11 \/ is_wayland) /\ cmd_exists(bin)

\* Where control falls through to when the block at p does not return.
NextStep_xselfirst(p) ==
    CASE p = "wl_copy" -> "xsel_copy"
      [] p = "xsel_copy" -> "xclip_copy"
      [] p = "xclip_copy" ->
            IF target_os = "macos" THEN "pbcopy"
            ELSE IF target_os = "windows" THEN "clip_exe" ELSE "arboard"
      [] p = "clip_exe" -> "powershell"
      [] OTHER -> "arboard"

NextStep(p) ==
    CASE p = "wl_copy" -> "xclip_copy"
      [] p = "xclip_copy" -> "xsel_copy"
      [] p = "xsel_copy" ->
            IF target_os = "macos" THEN "pbcopy"
            ELSE IF target_os = "windows" THEN "clip_exe" ELSE "arboard"
      [] p = "clip_exe" -> "powershell"
      [] OTHER -> "arboard"

Call(fn, ok, argv, out) == [fn |-> fn, ok |-> ok, argv |-> argv, out |-> out]

Init ==
    /\ env \in [{"WAYLAND_DISPLAY", "WAYLAND_SOCKET", "DISPLAY"} -> BOOLEAN]
    /\ path \in SUBSET Tools
    /\ target_os \in TargetOS
    /\ pc = "wl_copy"
    /\ trace = <<>>
    /\ stderr = <<>>
    /\ result = Pending
    /\ children = {}

\* A CLI block whose guard holds: run the writer; on Err print the
\* diagnostic and fall through, on Ok go on to the read-back.
CliWrite(step, fn, bin, argv, verifyStep) ==
    \E o \in WriteOutcomes :
        LET r == run_with_stdin(bin, o) IN
        /\ trace' = Append(trace, Call(fn, r.tag = "Ok", argv, o))
        /\ children' = children \cup ChildAfter(argv, o)
        /\ IF r.tag = "Err"
             THEN /\ stderr' = Append(stderr, <<">> ", bin, " failed: ">> \o r.msg)
                  /\ pc' = NextStep(step)
             ELSE /\ stderr' = stderr
                  /\ pc' = verifyStep
        /\ UNCHANGED result

Skip(step) ==
    /\ pc' = NextStep(step)
    /\ UNCHANGED <<trace, stderr, result, children>>

WlCopy ==
    /\ pc = "wl_copy"
    /\ IF WlGate
         THEN CliWrite("wl_copy", "wl_copy", "wl-copy", WlCopyArgv, "wl_verify")
         ELSE Skip("wl_copy")
    /\ UNCHANGED <<env, path, target_os>>

WlVerify ==
    /\ pc = "wl_verify"
    /\ \E o \in (IF cmd_exists("wl-paste") THEN ReadOutcomes ELSE {NotRun}) :
        LET ok == verify_wl_paste_non_empty(o) IN
        /\ trace' = Append(trace, Call("verify_wl_paste_non_empty", ok,
                                       IF o = NotRun THEN <<>> ELSE WlPasteArgv, o))
        /\ children' = children \cup ChildAfter(WlPasteArgv, o)
        /\ IF ok
             THEN /\ result' = Ok
                  /\ pc' = "done"
                  /\ stderr' = stderr
             ELSE /\ stderr' = Append(stderr,
                        <<">> ", "wl-copy", " reported success but paste was empty">>)
                  /\ pc' = NextStep("wl_copy")
                  /\ result' = result
    /\ UNCHANGED <<env, path, target_os>>

XclipCopy ==
    /\ pc = "xclip_copy"
    /\ IF X11Gate("xclip")
         THEN CliWrite("xclip_copy", "xclip_copy", "xclip", XclipCopyArgv, "xclip_verify")
         ELSE Skip("xclip_copy")
    /\ UNCHANGED <<env, path, target_os>>

XclipVerify_fallthrough ==
    /\ pc = "xclip_verify"
    /\ \E o \in ReadOutcomes :
        LET ok == verify_xclip_non_empty(o) IN
        /\ trace' = Append(trace, Call("verify_xclip_non_empty", ok, XclipPasteArgv, o))
        /\ children' = children \cup ChildAfter(XclipPasteArgv, o)
        /\ pc' = NextStep("xclip_copy")
        /\ result' = result
        /\ stderr' = stderr
    /\ UNCHANGED <<env, path, target_os>>

XclipVerify ==
    /\ pc = "xclip_verify"
    /\ \E o \in ReadOutcomes :
        LET ok == verify_xclip_non_empty(o) IN
        /\ trace' = Append(trace, Call("verify_xclip_non_empty", ok, XclipPasteArgv, o))
        /\ children' = children \cup ChildAfter(XclipPasteArgv, o)
        /\ IF ok
             THEN /\ result' = Ok
                  /\ pc' = "done"
             ELSE /\ pc' = NextStep("xclip_copy")
                  /\ result' = result
        /\ stderr' = stderr
    /\ UNCHANGED <<env, path, target_os>>

XselCopy ==
    /\ pc = "xsel_copy"
    /\ IF X11Gate("xsel")
         THEN CliWrite("xsel_copy", "xsel_copy", "xsel", XselCopyArgv, "xsel_verify")
         ELSE Skip("xsel_copy")
    /\ UNCHANGED <<env, path, target_os>>

XselVerify ==
    /\ pc = "xsel_verify"
    /\ \E o \in ReadOutcomes :
        LET ok == verify_xsel_non_empty(o) IN
        /\ trace' = Append(trace, Call("verify_xsel_non_empty", ok, XselPasteArgv, o))
        /\ children' = children \cup ChildAfter(XselPasteArgv, o)
        /\ IF ok
             THEN /\ result' = Ok
                  /\ pc' = "done"
             ELSE /\ pc' = NextStep("xsel_copy")
                  /\ result' = result
        /\ stderr' = stderr
    /\ UNCHANGED <<env, path, target_os>>

\* An OS-native block whose guard holds: return whatever the writer returned,
\* its error mapped to a string.
OsWrite(fn, bin, argv) ==
    \E o \in WriteOutcomes :
        LET r == run_with_stdin(bin, o) IN
        /\ trace' = Append(trace, Call(fn, r.tag = "Ok", argv, o))
        /\ children' = children \cup ChildAfter(argv, o)
        /\ result' = r
        /\ pc' = "done"
        /\ stderr' = stderr

Pbcopy ==
    /\ pc = "pbcopy"
    /\ IF cmd_exists("pbcopy")
         THEN OsWrite("pbcopy", "pbcopy", PbcopyArgv)
         ELSE Skip("pbcopy")
    /\ UNCHANGED <<env, path, target_os>>

ClipExe ==
    /\ pc = "clip_exe"
    /\ IF cmd_exists("clip.exe")
         THEN OsWrite("clip_exe", "clip.exe", ClipExeArgv)
         ELSE Skip("clip_exe")
    /\ UNCHANGED <<env, path, target_os>>

PowershellClip ==
    /\ pc = "powershell"
    /\ IF cmd_exists("powershell")
         THEN OsWrite("powershell_clip", "powershell", PowershellArgv)
         ELSE Skip("powershell")
    /\ UNCHANGED <<env, path, target_os>>

LastErrorPrefix == "all clipboard backends failed; last error: "

Arboard ==
    /\ pc = "arboard"
    /\ \E o \in LibOutcomes :
        LET r == arboard_fallback(o) IN
        /\ trace' = Append(trace, Call("arboard_fallback", r.tag = "Ok", <<>>, o))
        /\ result' = IF r.tag = "Err" THEN Err(<<LastErrorPrefix>> \o r.msg) ELSE Ok
        /\ pc' = "done"
    /\ UNCHANGED <<env, path, target_os, stderr, children>>

Next ==
    \/ WlCopy
    \/ WlVerify
    \/ XclipCopy
    \/ XclipVerify
    \/ XselCopy
    \/ XselVerify
    \/ Pbcopy
    \/ ClipExe
    \/ PowershellClip
    \/ Arboard

Spec == Init /\ [][Next]_vars


----------------------------------------------------------------------------
(* Vocabulary of the properties. *)

Idx == 1..Len(trace)
VerifyFns == {"verify_wl_paste_non_empty", "verify_xclip_non_empty", "verify_xsel_non_empty"}
CliWriteFns == {"wl_copy", "xclip_copy", "xsel_copy"}
OsWriteFns == {"pbcopy", "clip_exe", "powershell_clip"}
FnOrder ==
    <<"wl_copy", "verify_wl_paste_non_empty", "xclip_copy", "verify_xclip_non_empty",
      "xsel_copy", "verify_xsel_non_empty", "pbcopy", "clip_exe", "powershell_clip",
      "arboard_fallback">>
Rank(fn) == CHOOSE k \in 1..Len(FnOrder) : FnOrder[k] = fn
WaylandSet == env.WAYLAND_DISPLAY \/ env.WAYLAND_SOCKET
\* The call at i ended a backend attempt with success.
Succeeded(i) ==
    /\ trace[i].ok
    /\ trace[i].fn \in VerifyFns \cup OsWriteFns \cup {"arboard_fallback"}
\* The read-back at i could not be carried out.
Inconclusive(i) ==
    /\ trace[i].fn \in VerifyFns
    /\ trace[i].out.kind \in {"not_run", "spawn_err", "wait_err"}
\* The read-back at i ran and printed nothing.
ReadEmpty(i) ==
    /\ trace[i].fn \in VerifyFns
    /\ trace[i].out.kind = "exit"
    /\ trace[i].out.stdout = <<>>

\* C1: once a backend's write succeeded and its verification did not report
\* empty, the call has returned Ok and nothing is invoked afterwards; with only
\* DISPLAY set, xclip present and working and xsel absent, the calls are
\* exactly the xclip write and the xclip read-back, and the result is Ok.
C1_ShortCircuit ==
    /\ \A i \in Idx :
            (trace[i].ok /\ trace[i].fn \in VerifyFns \cup OsWriteFns)
                => (i = Len(trace) /\ pc = "done" /\ result = Ok)
    /\ (/\ env.DISPLAY /\ ~WaylandSet
        /\ "xclip" \in path /\ "xsel" \notin path
        /\ Len(trace) >= 2
        /\ trace[1].ok
        /\ trace[2].out.kind = "exit" /\ trace[2].out.stdout # <<>>)
            => /\ Len(trace) = 2
               /\ trace[1].fn = "xclip_copy" /\ trace[1].argv = XclipCopyArgv
               /\ trace[2].fn = "verify_xclip_non_empty" /\ trace[2].argv = XclipPasteArgv
               /\ pc = "done" /\ result = Ok

C1_Witness ==
    /\ env.DISPLAY /\ ~WaylandSet /\ "xclip" \in path /\ "xsel" \notin path
    /\ pc = "done" /\ result = Ok
    /\ Len(trace) = 2
    /\ trace[2].fn = "verify_xclip_non_empty" /\ trace[2].out.stdout # <<>>

\* C2: a failed write of any candidate (wl-copy, xclip, xsel, pbcopy, clip.exe,
\* powershell) never ends the call: the call has not returned right after it.
C2_NoAbortOnFailure ==
    \A i \in Idx :
        (trace[i].fn \in CliWriteFns \cup OsWriteFns /\ ~trace[i].ok)
            => ~(i = Len(trace) /\ pc = "done")

\* C3: Err is returned only after the library fallback was attempted and failed.
C3_ErrOnlyAfterLibrary ==
    result.tag = "Err"
        => \E i \in Idx : trace[i].fn = "arboard_fallback" /\ ~trace[i].ok

\* C4: a read-back that ran and returned zero bytes makes its backend not
\* succeed: the call does not return there, and an Ok result then comes from a
\* later call.
C4_VerifiedEmptyNotTrusted ==
    \A i \in Idx :
        ReadEmpty(i) =>
            /\ ~trace[i].ok
            /\ (i = Len(trace) => (pc # "done" /\ result = Pending))
            /\ (result = Ok => \E j \in Idx : j > i /\ Succeeded(j))

C4_Witness ==
    /\ result = Ok
    /\ \E i \in Idx : ReadEmpty(i) /\ trace[i].fn = "verify_xsel_non_empty"

\* C5: when the write succeeded and the read-back could not be carried out
\* (reader not on PATH, or running it returned an error), the call returns Ok
\* there and tries nothing further; with a Wayland indicator set, wl-copy
\* present and wl-paste absent, a successful wl-copy write yields Ok.
C5_InconclusiveIsSuccess ==
    /\ \A i \in Idx :
            Inconclusive(i)
                => (trace[i].ok /\ i = Len(trace) /\ pc = "done" /\ result = Ok)
    /\ (/\ WaylandSet /\ "wl-copy" \in path /\ "wl-paste" \notin path
        /\ Len(trace) >= 1 /\ trace[1].ok
        /\ pc # "wl_verify")
            => (Len(trace) = 2 /\ pc = "done" /\ result = Ok)

C5_Witness ==
    /\ WaylandSet /\ "wl-copy" \in path /\ "wl-paste" \notin path
    /\ pc = "done" /\ result = Ok
    /\ Len(trace) = 2 /\ trace[2].out = NotRun

\* C6: the calls follow the fixed order wl-copy, xclip, xsel, OS-native tools,
\* library fallback, each at most once; nothing is attempted before a
\* higher-priority candidate that is applicable and available; Ok comes
\* directly after the first backend that reports success.
C6_StrictOrder ==
    LET Applicable(fn) ==
            CASE fn = "wl_copy" -> WaylandSet /\ "wl-copy" \in path
              [] fn = "xclip_copy" -> (env.DISPLAY \/ WaylandSet) /\ "xclip" \in path
              [] fn = "xsel_copy" -> (env.DISPLAY \/ WaylandSet) /\ "xsel" \in path
              [] fn = "pbcopy" -> target_os = "macos" /\ "pbcopy" \in path
              [] fn = "clip_exe" -> target_os = "windows" /\ "clip.exe" \in path
              [] OTHER -> FALSE
    IN
    /\ \A i, j \in Idx : i < j => Rank(trace[i].fn) < Rank(trace[j].fn)
    /\ \A i \in Idx : \A fn \in CliWriteFns \cup OsWriteFns :
            (Rank(fn) < Rank(trace[i].fn) /\ Applicable(fn))
                => \E j \in 1..i : trace[j].fn = fn
    /\ result = Ok
            => /\ trace # <<>>
               /\ Succeeded(Len(trace))
               /\ \A i \in 1..(Len(trace) - 1) : ~Succeeded(i)

C6_Witness ==
    /\ result = Ok
    /\ \E i, j, k, l \in Idx :
            /\ trace[i].fn = "wl_copy"
            /\ trace[j].fn = "xclip_copy"
            /\ trace[k].fn = "xsel_copy"
            /\ trace[l].fn = "arboard_fallback"

\* C7: wl-copy runs only with a Wayland indicator set and wl-copy on PATH;
\* xclip and xsel run only with DISPLAY or a Wayland indicator set and the tool
\* on PATH; a skipped candidate leaves no call, no diagnostic and no child; with
\* no indicator and no CLI tool only the library fallback is attempted, and its
\* error text is carried by the returned error.
C7_GatedAttempts ==
    LET Gate(bin) ==
            IF bin = "wl-copy" THEN WaylandSet /\ "wl-copy" \in path
            ELSE (env.DISPLAY \/ WaylandSet) /\ bin \in path
        Uses(argv, bin) ==
            argv # <<>> /\ (argv[1] = bin \/ (bin = "wl-copy" /\ argv[1] = "wl-paste"))
    IN
    /\ \A bin \in {"wl-copy", "xclip", "xsel"} :
            ~Gate(bin) =>
                /\ \A i \in Idx : ~Uses(trace[i].argv, bin)
                /\ \A j \in 1..Len(stderr) : stderr[j][2] # bin
                /\ \A c \in children : ~Uses(c.argv, bin)
    /\ (/\ ~env.DISPLAY /\ ~WaylandSet
        /\ path \cap {"wl-copy", "xclip", "xsel", "pbcopy", "clip.exe", "powershell"} = {}
        /\ pc = "done")
            => /\ Len(trace) = 1
               /\ trace[1].fn = "arboard_fallback"
               /\ stderr = <<>> /\ children = {}
               /\ (~trace[1].ok
                     => result = Err(<<LastErrorPrefix>> \o ErrorText(trace[1].out)))
               /\ (trace[1].ok => result = Ok)

C7_Witness ==
    /\ ~env.DISPLAY /\ ~WaylandSet /\ path = {}
    /\ pc = "done" /\ result.tag = "Err"
    /\ trace[1].out.kind = "new_err"

\* C8 as stated: a read-back returns false only when the reader was spawned,
\* exited with a success status and printed zero bytes; it returns true when
\* the reader is unavailable or its invocation errors, and in every other case.
C8_EmptyOnlyOnSuccessfulRun ==
    \A i \in Idx :
        trace[i].fn \in VerifyFns =>
            (~trace[i].ok <=> (/\ trace[i].out.kind = "exit"
                               /\ success(trace[i].out.code)
                               /\ trace[i].out.stdout = <<>>))

\* C8 amended: a read-back returns false exactly when the reader was spawned
\* and its output collected, whatever its exit status, and it printed zero
\* bytes; it returns true when the reader is unavailable or its invocation
\* errors, and whenever it printed at least one byte.
C8_EmptyIgnoresExitStatus ==
    \A i \in Idx :
        trace[i].fn \in VerifyFns =>
            (~trace[i].ok <=> (/\ trace[i].out.kind = "exit"
                               /\ trace[i].out.stdout = <<>>))

C8_Witness ==
    \E i, j \in Idx :
        /\ trace[i].fn = "verify_wl_paste_non_empty"
        /\ ~trace[i].ok /\ ~success(trace[i].out.code)
        /\ trace[j].fn = "verify_xclip_non_empty"
        /\ trace[j].ok /\ trace[j].out.kind = "spawn_err"

\* C9: after a writer call that ended in success, in a non-zero exit or in an
\* error while writing the payload, the child it spawned has its input pipe
\* closed and its exit status collected.
C9_ChildReleased ==
    \A i \in Idx :
        (/\ trace[i].fn \in CliWriteFns \cup OsWriteFns
         /\ trace[i].out.kind \in {"exit", "write_err"})
            => \A c \in children :
                    c.argv = trace[i].argv => (c.stdin_closed /\ c.reaped)

\* C10: every failed attempt of wl-copy, xclip and xsel that lets the cascade
\* go on (write failed, or write succeeded and the read-back proved empty) has
\* its diagnostic line on standard error.
C10_FailuresReported ==
    LET BinOf(fn) ==
            CASE fn \in {"wl_copy", "verify_wl_paste_non_empty"} -> "wl-copy"
              [] fn \in {"xclip_copy", "verify_xclip_non_empty"} -> "xclip"
              [] OTHER -> "xsel"
    IN
    \A i \in Idx :
        (trace[i].fn \in CliWriteFns \cup VerifyFns /\ ~trace[i].ok)
            => \E j \in 1..Len(stderr) :
                    /\ stderr[j][2] = BinOf(trace[i].fn)
                    /\ (stderr[j][3] = " failed: ") = (trace[i].fn \in CliWriteFns)
====
